---- MODULE Spec2Model ----
(***************************************************************************)
(* Model of secret-santa.py and secret-santa-eum.py: one run of main().    *)
(* Strings are sequences of one-character strings, so that strip(),        *)
(* lower() and replace(" ", "") are computed and not assumed.  Python's    *)
(* 0-based list positions are 1-based sequence positions here.             *)
(***************************************************************************)
EXTENDS Integers, Sequences, FiniteSets, TLC

VARIABLES
    pc,              \* position of main(): open, load, generate, build, client, send, done, exit
    variant,         \* the script run, "sns" (secret-santa.py) or "eum"
                     \* (secret-santa-eum.py); "unread" until main first uses it
    dry_run,         \* main: dry_run, set where main first uses it
    max_attempts,    \* generate_assignments: max_attempts (0 before the call)
    line_number,     \* load_participants: line_number of the row last read
    row,             \* load_participants: the row last read
    couple_counter,  \* load_participants: couple_counter
    participants,    \* load_participants: participants
    indices,         \* generate_assignments: indices
    attempt,         \* generate_assignments: number of shuffles made so far
    assignments,     \* main: assignments (<<>> until generate_assignments returns)
    build_i,         \* build_sms_messages: number of assignment records composed
    sms_to_send,     \* build_sms_messages: the dict, as its items() in insertion order
    client,          \* main: client ("none", "sns" or "eum")
    send_i,          \* send loop: number of items of sms_to_send handled
    sent,            \* messages accepted by the transport, in order
    log_error,       \* the logging.error record written before sys.exit
    exit_code        \* the process exit status (meaningful when pc is exit or done)

vars == <<pc, variant, dry_run, max_attempts, line_number, row,
          couple_counter, participants, indices, attempt, assignments, build_i,
          sms_to_send, client, send_i, sent, log_error, exit_code>>

----------------------------------------------------------------------------
\* Bounds of the model

\* rows read from the roster file after the header
MaxRows == 3
\* participants a roster of the model holds
MaxParticipants == 4
\* largest max_attempts a run is given
MaxAttempts == 2

----------------------------------------------------------------------------
\* Program constants (budget, coin, prefix and year at their defaults)

EXIT_CODE_ASSIGNMENT_FAILED == 2
EXIT_CODE_SNS_FAILED == 3
EXIT_CODE_EUM_FAILED == 3

DEFAULT_BUDGET == <<"2", "0">>
\* the euro sign, one character, written in ASCII
DEFAULT_COIN == <<"EUR">>
DEFAULT_COUNTRY_PREFIX == <<"+", "3", "5", "1">>
Year == <<"2", "0", "2", "4">>

None == <<>>

----------------------------------------------------------------------------
\* String helpers

Whitespace == {" ", "\t"}

RECURSIVE LStrip(_)
LStrip(s) ==
    IF s # <<>> /\ Head(s) \in Whitespace THEN LStrip(Tail(s)) ELSE s

RECURSIVE RStrip(_)
RStrip(s) ==
    IF s # <<>> /\ s[Len(s)] \in Whitespace
    THEN RStrip(SubSeq(s, 1, Len(s) - 1))
    ELSE s

\* str.strip(): leading and trailing whitespace removed
Strip(s) == RStrip(LStrip(s))

LowerChar(c) ==
    CASE c = "S" -> "s"
      [] c = "I" -> "i"
      [] c = "N" -> "n"
      [] c = "G" -> "g"
      [] c = "L" -> "l"
      [] c = "E" -> "e"
      [] c = "C" -> "c"
      [] c = "O" -> "o"
      [] c = "U" -> "u"
      [] c = "P" -> "p"
      [] c = "W" -> "w"
      [] OTHER -> c

\* str.lower()
Lower(s) == [i \in 1..Len(s) |-> LowerChar(s[i])]

IsNotSpace(c) == c # " "

\* str.replace(" ", ""): every space character removed
ReplaceSpaces(s) == SelectSeq(s, IsNotSpace)

----------------------------------------------------------------------------
\* The roster rows the csv reader can yield

SINGLE == <<"s", "i", "n", "g", "l", "e">>
COUPLE == <<"c", "o", "u", "p", "l", "e">>

RowSet == {
    \* valid single rows: A with phone "1 2", B with phone "12"
    << <<"S", "i", "n", "g", "l", "e">>, <<"A">>, <<"1", " ", "2">> >>,
    << <<" ", "s", "i", "n", "g", "l", "e">>, <<"B", " ">>, <<"1", "2", " ">> >>,
    \* valid couple rows: C and D; a second A, with a tab inside the phone, and F
    << <<"C", "o", "u", "p", "l", "e">>, <<"C">>, <<"3">>, <<"D">>, <<"4">> >>,
    << <<"C", "O", "U", "P", "L", "E", " ">>, <<" ", "A">>, <<"1", "\t", "2">>,
       <<"F">>, <<"\t", "5">> >>,
    \* malformed rows: too few fields, unknown status
    << <<"s", "i", "n", "g", "l", "e">>, <<"A">> >>,
    << <<"c", "o", "u", "p", "l", "e">>, <<"C">>, <<"3">>, <<"D">> >>,
    << <<"W", "i", "d", "o", "w">>, <<"A">>, <<"1">> >>,
    \* blank line
    << >>
}

\* participants the loop body appends for a row
RowAdds(r) ==
    IF r = <<>> THEN 0
    ELSE LET status == Lower(Strip(r[1])) IN
         IF status = SINGLE /\ Len(r) >= 3 THEN 1
         ELSE IF status = COUPLE /\ Len(r) >= 5 THEN 2
         ELSE 0

----------------------------------------------------------------------------
Init ==
    /\ pc = "open"
    /\ variant = "unread"
    /\ dry_run = FALSE
    /\ max_attempts = 0
    /\ line_number = 1
    /\ row = <<>>
    /\ couple_counter = 0
    /\ participants = <<>>
    /\ indices = <<>>
    /\ attempt = 0
    /\ assignments = <<>>
    /\ build_i = 0
    /\ sms_to_send = <<>>
    /\ client = "none"
    /\ send_i = 0
    /\ sent = <<>>
    /\ log_error = <<"none">>
    /\ exit_code = 0

----------------------------------------------------------------------------
\* load_participants

Exit(code, err) ==
    /\ pc' = "exit"
    /\ exit_code' = code
    /\ log_error' = err

\* open() raises FileNotFoundError or OSError
OpenFail ==
    /\ pc = "open"
    /\ \E e \in {"not found", "os error"} :
           Exit(EXIT_CODE_ASSIGNMENT_FAILED, <<"ingestion", e>>)
    /\ UNCHANGED <<variant, dry_run, max_attempts, line_number, row,
                   couple_counter, participants, indices, attempt, assignments,
                   build_i, sms_to_send, client, send_i, sent>>

\* next(csv_reader) raises StopIteration: the file has no header line
OpenEmpty ==
    /\ pc = "open"
    /\ Exit(EXIT_CODE_ASSIGNMENT_FAILED, <<"ingestion", "empty">>)
    /\ UNCHANGED <<variant, dry_run, max_attempts, line_number, row,
                   couple_counter, participants, indices, attempt, assignments,
                   build_i, sms_to_send, client, send_i, sent>>

\* the header line is read and skipped
OpenOk ==
    /\ pc = "open"
    /\ pc' = "load"
    /\ UNCHANGED <<variant, dry_run, max_attempts, line_number, row,
                   couple_counter, participants, indices, attempt, assignments,
                   build_i, sms_to_send, client, send_i, sent, log_error, exit_code>>

Single(name, phone) ==
    [name |-> name, phone |-> phone, is_couple |-> FALSE, couple_id |-> None]

Coupled(name, phone, couple_id) ==
    [name |-> name, phone |-> phone, is_couple |-> TRUE, couple_id |-> couple_id]

\* f"couple{couple_counter}"
CoupleId(counter) == <<"couple", counter>>

\* a counter that is never advanced
SameCoupleCounter(counter) == counter

\* couple_counter += 1
NextCoupleCounter(counter) == counter + 1

\* one iteration of the for loop over csv_reader; a malformed row is logged and
\* skipped (log_error keeps only the errors that end the run)
ReadRow ==
    /\ pc = "load"
    /\ line_number - 1 < MaxRows
    /\ \E r \in RowSet :
        /\ Len(participants) + RowAdds(r) <= MaxParticipants
        /\ row' = r
        /\ line_number' = line_number + 1
        /\ IF r = <<>>
           THEN UNCHANGED <<participants, couple_counter>>
           ELSE LET status == Lower(Strip(r[1])) IN
             IF status = SINGLE
             THEN IF Len(r) < 3
                  THEN UNCHANGED <<participants, couple_counter>>
                  ELSE /\ participants' =
                            Append(participants, Single(Strip(r[2]), Strip(r[3])))
                       /\ UNCHANGED couple_counter
             ELSE IF status = COUPLE
             THEN IF Len(r) < 5
                  THEN UNCHANGED <<participants, couple_counter>>
                  ELSE LET couple_id == CoupleId(couple_counter) IN
                       /\ couple_counter' = NextCoupleCounter(couple_counter)
                       /\ participants' = participants \o
                            << Coupled(Strip(r[2]), Strip(r[3]), couple_id),
                               Coupled(Strip(r[4]), Strip(r[5]), couple_id) >>
             ELSE UNCHANGED <<participants, couple_counter>>
    /\ UNCHANGED <<pc, variant, dry_run, max_attempts, indices, attempt, assignments,
                   build_i, sms_to_send, client, send_i, sent, log_error, exit_code>>

\* reading the file raises OSError inside the with block
ReadError ==
    /\ pc = "load"
    /\ Exit(EXIT_CODE_ASSIGNMENT_FAILED, <<"ingestion", "os error">>)
    /\ UNCHANGED <<variant, dry_run, max_attempts, line_number, row,
                   couple_counter, participants, indices, attempt, assignments,
                   build_i, sms_to_send, client, send_i, sent>>

\* the reader is exhausted: the length check and the return of load_participants
\* (its loop variables go out of scope), then main calls generate_assignments
\* with some max_attempts (n = len(participants), indices = list(range(n)))
EndOfFile ==
    /\ pc = "load"
    /\ IF Len(participants) < 2
       THEN /\ Exit(EXIT_CODE_ASSIGNMENT_FAILED,
                    <<"ingestion", "too few", Len(participants)>>)
            /\ UNCHANGED <<indices, max_attempts, row, line_number>>
       ELSE /\ pc' = "generate"
            /\ row' = <<>>
            /\ line_number' = 1
            /\ indices' = [i \in 1..Len(participants) |-> i]
            /\ max_attempts' \in 1..MaxAttempts
            /\ UNCHANGED <<exit_code, log_error>>
    /\ UNCHANGED <<variant, dry_run, couple_counter, participants, attempt,
                   assignments, build_i, sms_to_send, client, send_i, sent>>

----------------------------------------------------------------------------
\* generate_assignments

RECURSIVE Perms(_)
\* all orderings of the set S, as sequences
Perms(S) ==
    IF S = {} THEN {<<>>}
    ELSE UNION {{<<x>> \o p : p \in Perms(S \ {x})} : x \in S}

\* a faulty shuffle that samples positions with replacement
ShuffleWithReplacement(idx) == [1..Len(idx) -> {idx[i] : i \in 1..Len(idx)}]

\* random.shuffle(indices): the lists the in-place shuffle can leave
Shuffle(idx) == {[i \in 1..Len(idx) |-> idx[p[i]]] : p \in Perms(1..Len(idx))}

RECURSIVE IsValidNoSelfRule(_, _, _)
\* is_valid_from without the self-gifting test
IsValidNoSelfRule(ps, idx, i) ==
    IF i > Len(idx) THEN TRUE
    ELSE LET receiver == ps[i]
             santa == ps[idx[i]]
         IN IF /\ santa.is_couple
               /\ receiver.is_couple
               /\ santa.couple_id = receiver.couple_id
            THEN FALSE
            ELSE IsValidNoSelfRule(ps, idx, i + 1)

RECURSIVE IsValidAnyCouple(_, _, _)
\* is_valid_from rejecting every couple-to-couple gift, whatever the couple_id
IsValidAnyCouple(ps, idx, i) ==
    IF i > Len(idx) THEN TRUE
    ELSE LET receiver == ps[i]
             santa == ps[idx[i]]
         IN IF santa.name = receiver.name THEN FALSE
            ELSE IF santa.is_couple /\ receiver.is_couple THEN FALSE
            ELSE IsValidAnyCouple(ps, idx, i + 1)

RECURSIVE is_valid_from(_, _, _)
\* the for loop of is_valid_assignment from position i on, with its early returns
is_valid_from(ps, idx, i) ==
    IF i > Len(idx) THEN TRUE
    ELSE LET receiver == ps[i]
             santa == ps[idx[i]]
         IN IF santa.name = receiver.name THEN FALSE
            ELSE IF /\ santa.is_couple
                    /\ receiver.is_couple
                    /\ santa.couple_id = receiver.couple_id
            THEN FALSE
            ELSE is_valid_from(ps, idx, i + 1)

is_valid_assignment(ps, idx) == is_valid_from(ps, idx, 1)

\* the records built as (receiver, santa)
PairingSwapped(ps, idx) == [i \in 1..Len(idx) |-> <<ps[i], ps[idx[i]]>>]

\* the list comprehension of the return statement: (santa, receiver) per position
Pairing(ps, idx) == [i \in 1..Len(idx) |-> <<ps[idx[i]], ps[i]>>]

\* a loop that hands back its last permutation when the attempts run out
AttemptFallback ==
    /\ pc = "generate"
    /\ \E p \in Shuffle(indices) :
        /\ indices' = p
        /\ attempt' = attempt + 1
        /\ IF is_valid_assignment(participants, p) \/ attempt + 1 = max_attempts
           THEN /\ assignments' = Pairing(participants, p)
                /\ pc' = "build"
                /\ UNCHANGED <<exit_code, log_error>>
           ELSE UNCHANGED <<pc, assignments, exit_code, log_error>>
    /\ UNCHANGED <<variant, dry_run, max_attempts, line_number, row,
                   couple_counter, participants, build_i, sms_to_send, client,
                   send_i, sent>>

\* a loop that gives up at once on a roster of two participants
AttemptFailFastPair ==
    /\ pc = "generate"
    /\ \E p \in Shuffle(indices) :
        /\ indices' = p
        /\ attempt' = attempt + 1
        /\ IF is_valid_assignment(participants, p)
           THEN /\ assignments' = Pairing(participants, p)
                /\ pc' = "build"
                /\ UNCHANGED <<exit_code, log_error>>
           ELSE IF attempt + 1 = max_attempts \/ Len(participants) = 2
           THEN /\ Exit(EXIT_CODE_ASSIGNMENT_FAILED, <<"assignment", max_attempts>>)
                /\ UNCHANGED assignments
           ELSE UNCHANGED <<pc, assignments, exit_code, log_error>>
    /\ UNCHANGED <<variant, dry_run, max_attempts, line_number, row,
                   couple_counter, participants, build_i, sms_to_send, client,
                   send_i, sent>>

\* one iteration of the for loop, and the fall-through to sys.exit after the last
Attempt ==
    /\ pc = "generate"
    /\ \E p \in Shuffle(indices) :
        /\ indices' = p
        /\ attempt' = attempt + 1
        /\ IF is_valid_assignment(participants, p)
           THEN /\ assignments' = Pairing(participants, p)
                /\ pc' = "build"
                /\ UNCHANGED <<exit_code, log_error>>
           ELSE IF attempt + 1 = max_attempts
           THEN /\ Exit(EXIT_CODE_ASSIGNMENT_FAILED, <<"assignment", max_attempts>>)
                /\ UNCHANGED assignments
           ELSE UNCHANGED <<pc, assignments, exit_code, log_error>>
    /\ UNCHANGED <<variant, dry_run, max_attempts, line_number, row,
                   couple_counter, participants, build_i, sms_to_send, client,
                   send_i, sent>>

----------------------------------------------------------------------------
\* build_sms_messages

\* the f-string of the message
Message(santa, receiver, budget, coin, year) ==
    <<"Secret Santa ">> \o year \o <<"!!! Congratulations ">> \o santa.name
    \o <<" you're the Secret Santa of << ">> \o receiver.name
    \o <<" >>. The gift's budget is: ">> \o budget \o coin

HasKey(d, k) == \E j \in 1..Len(d) : d[j][1] = k

\* a dict that keeps the value it already holds for a key
DictSetDefault(d, k, v) == IF HasKey(d, k) THEN d ELSE Append(d, <<k, v>>)

\* d[k] = v on a dict held as its items in insertion order
DictSet(d, k, v) ==
    IF HasKey(d, k)
    THEN [j \in 1..Len(d) |-> IF d[j][1] = k THEN <<k, v>> ELSE d[j]]
    ELSE Append(d, <<k, v>>)

\* one iteration of the for loop; the return follows the last one
BuildStep ==
    /\ pc = "build"
    /\ build_i < Len(assignments)
    /\ LET santa == assignments[build_i + 1][1]
           receiver == assignments[build_i + 1][2]
           phone == ReplaceSpaces(santa.phone)
           message == Message(santa, receiver, DEFAULT_BUDGET, DEFAULT_COIN, Year)
       IN sms_to_send' = DictSet(sms_to_send, phone, message)
    /\ build_i' = build_i + 1
    /\ pc' = IF build_i + 1 = Len(assignments) THEN "client" ELSE "build"
    /\ UNCHANGED <<variant, dry_run, max_attempts, line_number, row,
                   couple_counter, participants, indices, attempt, assignments,
                   client, send_i, sent, log_error, exit_code>>

----------------------------------------------------------------------------
\* main: the client, and send_sms_messages / send_eum_sms_messages

DeliveryExitCode(v) ==
    IF v = "sns" THEN EXIT_CODE_SNS_FAILED ELSE EXIT_CODE_EUM_FAILED

Variants == {"sns", "eum"}

\* if not dry_run: client = create_..._client() else: client = None.
\* The script run and the SECRET_SANTA_DRY_RUN setting are inputs of the run,
\* drawn here, where main first uses them.
CreateClient ==
    /\ pc = "client"
    /\ \E v \in Variants, d \in BOOLEAN :
        /\ variant' = v
        /\ dry_run' = d
        /\ client' = IF d THEN "none" ELSE v
    /\ pc' = "send"
    /\ UNCHANGED <<max_attempts, line_number, row,
                   couple_counter, participants, indices, attempt, assignments,
                   build_i, sms_to_send, send_i, sent, log_error, exit_code>>

\* not dry_run, and boto3.client raises BotoCoreError or ClientError
CreateClientFail ==
    /\ pc = "client"
    /\ \E v \in Variants :
        /\ variant' = v
        /\ dry_run' = FALSE
        /\ Exit(DeliveryExitCode(v), <<"client">>)
    /\ UNCHANGED <<max_attempts, line_number, row,
                   couple_counter, participants, indices, attempt, assignments,
                   build_i, sms_to_send, client, send_i, sent>>

\* the code of the send function before its sending loop: the EUM_CHANNEL_ID
\* check of the eum variant (the setting is an input, drawn here), and the dry
\* run, which prints every message and returns
SendStart ==
    /\ pc = "send"
    /\ \E channel_set \in (IF variant = "eum" THEN BOOLEAN ELSE {TRUE}) :
         IF variant = "eum" /\ ~channel_set
         THEN Exit(DeliveryExitCode(variant), <<"channel">>)
         ELSE /\ pc' = IF dry_run THEN "done" ELSE "sending"
              /\ UNCHANGED <<exit_code, log_error>>
    /\ UNCHANGED <<variant, dry_run, max_attempts, line_number, row,
                   couple_counter, participants, indices, attempt, assignments,
                   build_i, sms_to_send, client, send_i, sent>>

\* client.publish / client.send_message returns
SendOk ==
    /\ pc = "sending"
    /\ send_i < Len(sms_to_send)
    /\ LET phone == sms_to_send[send_i + 1][1]
           message == sms_to_send[send_i + 1][2]
           full_number == DEFAULT_COUNTRY_PREFIX \o phone
       IN sent' = Append(sent, <<full_number, message>>)
    /\ send_i' = send_i + 1
    /\ pc' = IF send_i + 1 = Len(sms_to_send) THEN "done" ELSE "sending"
    /\ UNCHANGED <<variant, dry_run, max_attempts, line_number, row,
                   couple_counter, participants, indices, attempt, assignments,
                   build_i, sms_to_send, client, log_error, exit_code>>

\* a failed send that also drops the entry it could not deliver
SendFailConsuming ==
    /\ pc = "sending"
    /\ send_i < Len(sms_to_send)
    /\ Exit(DeliveryExitCode(variant), <<"delivery", sms_to_send[send_i + 1][1]>>)
    /\ sms_to_send' = [j \in 1..(Len(sms_to_send) - 1) |->
                          IF j <= send_i THEN sms_to_send[j] ELSE sms_to_send[j + 1]]
    /\ UNCHANGED <<variant, dry_run, max_attempts, line_number, row,
                   couple_counter, participants, indices, attempt, assignments,
                   build_i, client, send_i, sent>>

\* a failed send that is logged and skipped, the run going on to the next entry
\* and exiting with the failure code after the last
SendFailContinue ==
    /\ pc = "sending"
    /\ send_i < Len(sms_to_send)
    /\ send_i' = send_i + 1
    /\ log_error' = <<"delivery", sms_to_send[send_i + 1][1]>>
    /\ IF send_i + 1 = Len(sms_to_send)
       THEN pc' = "exit" /\ exit_code' = DeliveryExitCode(variant)
       ELSE UNCHANGED <<pc, exit_code>>
    /\ UNCHANGED <<variant, dry_run, max_attempts, line_number, row,
                   couple_counter, participants, indices, attempt, assignments,
                   build_i, sms_to_send, client, sent>>

\* client.publish / client.send_message raises BotoCoreError or ClientError
SendFail ==
    /\ pc = "sending"
    /\ send_i < Len(sms_to_send)
    /\ Exit(DeliveryExitCode(variant), <<"delivery", sms_to_send[send_i + 1][1]>>)
    /\ UNCHANGED <<variant, dry_run, max_attempts, line_number, row,
                   couple_counter, participants, indices, attempt, assignments,
                   build_i, sms_to_send, client, send_i, sent>>

----------------------------------------------------------------------------
Next ==
    \/ OpenFail
    \/ OpenEmpty
    \/ OpenOk
    \/ ReadRow
    \/ ReadError
    \/ EndOfFile
    \/ Attempt
    \/ BuildStep
    \/ CreateClient
    \/ CreateClientFail
    \/ SendStart
    \/ SendOk
    \/ SendFail

Spec == Init /\ [][Next]_vars

----------------------------------------------------------------------------
\* Properties

Positions == 1..Len(participants)

\* main has called generate_assignments
Called == max_attempts >= 1

\* generate_assignments has returned a pairing
Returned == assignments # <<>>

\* build_sms_messages has returned the mapping
Built == Returned /\ build_i = Len(assignments)

\* C1: the returned list has one (santa, receiver) record per participant, and
\* every list position is santa exactly once and receiver exactly once: the
\* records are those of a bijection f on the positions
C1_Bijection ==
    Returned =>
        /\ Len(assignments) = Len(participants)
        /\ \E f \in Perms(Positions) :
              \A i \in Positions :
                  /\ assignments[i][1] = participants[f[i]]
                  /\ assignments[i][2] = participants[i]

\* a run that completed on a roster of four with a couple in it
C1_Witness ==
    /\ pc = "done"
    /\ Len(assignments) = 4
    /\ \E i \in Positions : participants[i].is_couple

\* position i of permutation idx breaks the self rule or the same-couple rule
Violates(ps, idx, i) ==
    \/ ps[idx[i]].name = ps[i].name
    \/ /\ ps[idx[i]].is_couple
       /\ ps[i].is_couple
       /\ ps[idx[i]].couple_id = ps[i].couple_id

\* C2: no returned record pairs a name with itself or two members of one
\* couple, and is_valid_assignment accepts a drawn permutation exactly when no
\* position violates the self rule or the same-couple rule
C2_NeverInvalid ==
    /\ Returned =>
          \A i \in 1..Len(assignments) :
              LET santa == assignments[i][1]
                  receiver == assignments[i][2]
              IN /\ santa.name # receiver.name
                 /\ (santa.is_couple /\ receiver.is_couple)
                        => santa.couple_id # receiver.couple_id
    /\ indices # <<>> =>
          (is_valid_assignment(participants, indices)
              <=> \A i \in Positions : ~Violates(participants, indices, i))

\* a pairing was returned for a roster holding a couple and a repeated name
C2_Witness ==
    /\ Returned
    /\ \E i, j \in Positions : i # j /\ participants[i].name = participants[j].name
    /\ \E i \in Positions : participants[i].is_couple

\* the run ended on the "Could not find a valid ... assignment" error
AssignmentFailed == pc = "exit" /\ log_error[1] = "assignment"

\* C3: when the max_attempts-th shuffle is invalid too, the run has made exactly
\* max_attempts attempts and exits with the assignment failure code, reporting
\* the attempt count; no pairing is returned, no message composed, nothing sent
C3_ExhaustionIsFatal ==
    /\ pc = "generate" => attempt < max_attempts
    /\ (/\ Called
        /\ attempt = max_attempts
        /\ \E i \in Positions : Violates(participants, indices, i))
          => AssignmentFailed
    /\ AssignmentFailed =>
          /\ attempt = max_attempts
          /\ log_error = <<"assignment", attempt>>
          /\ exit_code = EXIT_CODE_ASSIGNMENT_FAILED
          /\ exit_code # 0
          /\ assignments = <<>>
          /\ build_i = 0
          /\ sms_to_send = <<>>
          /\ send_i = 0
          /\ sent = <<>>

\* the attempts ran out after more than one shuffle
C3_Witness == AssignmentFailed /\ attempt >= 2

\* the roster is exactly one couple
CoupleOnly ==
    /\ Called
    /\ Len(participants) = 2
    /\ participants[1].is_couple
    /\ participants[2].is_couple
    /\ participants[1].couple_id = participants[2].couple_id

\* C4 as stated: a roster of one couple fails within one attempt, without
\* exhausting max_attempts
C4_FailsWithinOneAttempt ==
    CoupleOnly =>
        /\ pc = "generate" => attempt = 0
        /\ AssignmentFailed => attempt <= 1

\* C4 as amended: a roster of one couple never gets a pairing; every shuffle is
\* rejected and the failure is signalled when, and only when, max_attempts
\* shuffles have been made
C4_FailsAfterMaxAttempts ==
    CoupleOnly =>
        /\ assignments = <<>>
        /\ pc \in {"generate", "exit"}
        /\ pc = "generate" => attempt < max_attempts
        /\ pc = "exit" => (AssignmentFailed /\ attempt = max_attempts)
        /\ attempt > 0 => \E i \in Positions : Violates(participants, indices, i)

\* a roster of one couple failed after two or more shuffles
C4_Witness == CoupleOnly /\ AssignmentFailed /\ attempt >= 2

\* the participants position i may not give to, itself included
Group(i) ==
    {j \in Positions :
        \/ j = i
        \/ /\ participants[i].couple_id # None
           /\ participants[j].couple_id = participants[i].couple_id}

DistinctNames ==
    \A i, j \in Positions : i # j => participants[i].name # participants[j].name

\* n >= 2, pairwise distinct names, and no group larger than n/2
Balanced ==
    /\ Len(participants) >= 2
    /\ DistinctNames
    /\ \A i \in Positions : 2 * Cardinality(Group(i)) <= Len(participants)

\* C5: on entry to generate_assignments with a roster of distinct names whose
\* largest group is at most n/2, some permutation passes is_valid_assignment, so
\* the shuffles can reach a pairing and the infeasible outcome is not forced
C5_BalancedIsFeasible ==
    (pc = "generate" /\ attempt = 0 /\ Balanced) =>
        \E p \in Perms(Positions) : is_valid_assignment(participants, p)

\* a pairing was returned for a balanced roster of two couples
C5_Witness ==
    /\ Returned
    /\ Balanced
    /\ \A i \in Positions : participants[i].is_couple

\* C6: an ingestion failure exits with a non-zero code that is neither the code
\* of an assignment failure nor the code of a delivery failure
C6_DistinctExitCodes ==
    (pc = "exit" /\ log_error[1] = "ingestion") =>
        /\ exit_code # 0
        /\ exit_code # EXIT_CODE_ASSIGNMENT_FAILED
        /\ exit_code # EXIT_CODE_SNS_FAILED
        /\ exit_code # EXIT_CODE_EUM_FAILED

\* the santa's phone of record i without its space characters
Key(i) == ReplaceSpaces(assignments[i][1].phone)

\* the mapping holds, for every key, the message of the last record with that
\* key, one entry per distinct key
LastComposedWins(keys) ==
    /\ \A i \in 1..Len(assignments) : HasKey(sms_to_send, keys[i])
    /\ \A j \in 1..Len(sms_to_send) :
          /\ \E i \in 1..Len(assignments) : keys[i] = sms_to_send[j][1]
          /\ LET last == CHOOSE i \in 1..Len(assignments) :
                            /\ keys[i] = sms_to_send[j][1]
                            /\ \A m \in 1..Len(assignments) :
                                   keys[m] = sms_to_send[j][1] => m <= i
             IN sms_to_send[j][2] =
                    Message(assignments[last][1], assignments[last][2],
                            DEFAULT_BUDGET, DEFAULT_COIN, Year)
    /\ \A j, k \in 1..Len(sms_to_send) :
          j # k => sms_to_send[j][1] # sms_to_send[k][1]
    /\ Len(sms_to_send) = Cardinality({keys[i] : i \in 1..Len(assignments)})
    /\ (\A i, m \in 1..Len(assignments) : i # m => keys[i] # keys[m])
          => Len(sms_to_send) = Len(participants)

\* a step of the delivery phase leaves the assignment and the mapping alone
DeliveryKeepsResults ==
    pc \in {"client", "send", "sending"}
        => (assignments' = assignments /\ sms_to_send' = sms_to_send)

\* C7: no send happens while messages are still being composed; once the run
\* is past composition one step was made per record and the mapping is whole;
\* no step of the delivery phase, a failed send included, changes the
\* assignment or the mapping
C7_BuiltBeforeDelivery ==
    /\ [](pc \in {"open", "load", "generate", "build"} => (sent = <<>> /\ send_i = 0))
    /\ []((pc \in {"client", "send", "sending", "done"} \/ sent # <<>> \/ send_i > 0)
            => (Built /\ \A i \in 1..Len(assignments) : HasKey(sms_to_send, Key(i))))
    /\ [][DeliveryKeepsResults]_vars

\* a send failed after an earlier one had succeeded
C7_Witness ==
    /\ pc = "exit"
    /\ log_error[1] = "delivery"
    /\ send_i >= 1
    /\ Len(sms_to_send) >= 2

\* s with every whitespace character removed, tabs included
RemoveWhitespace(s) ==
    LET keep(c) == c \notin Whitespace IN SelectSeq(s, keep)

\* C8 as stated: the key is the phone with all whitespace removed
C8_KeyWithoutWhitespace ==
    Built =>
        LastComposedWins([i \in 1..Len(assignments) |->
                             RemoveWhitespace(assignments[i][1].phone)])

\* C8 as amended: the key is the phone with its space characters removed, the
\* last message composed for a key is the one kept, the mapping has one entry
\* per distinct key and one per participant when the keys are all distinct
C8_LastComposedWins ==
    Built => LastComposedWins([i \in 1..Len(assignments) |-> Key(i)])

\* two santas of different names shared a key, and the mapping was built
C8_Witness ==
    /\ Built
    /\ \E i, m \in 1..Len(assignments) :
          /\ i # m
          /\ Key(i) = Key(m)
          /\ assignments[i][1].name # assignments[m][1].name

\* a step that shuffles is a loop iteration made before any return, and every
\* permutation drawn before it was invalid
DrawsOnlyWhileInvalid ==
    (attempt' # attempt \/ (pc # "load" /\ indices' # indices))
        => /\ pc = "generate"
           /\ ~Returned
           /\ attempt' = attempt + 1
           /\ attempt > 0
                => \E i \in Positions : Violates(participants, indices, i)

\* once returned, the pairing and the roster it was made from never change
ResultIsFinal ==
    Returned => (assignments' = assignments /\ participants' = participants)

\* C9: the pairing returned is the one built from the permutation drawn last,
\* which is valid; a shuffle is made only while no drawn permutation was valid,
\* and none after the return: the first valid draw decides the result
C9_FirstValidDrawDecides ==
    /\ [](Returned =>
            /\ \A i \in Positions :
                  /\ assignments[i][1] = participants[indices[i]]
                  /\ assignments[i][2] = participants[i]
            /\ \A i \in Positions : ~Violates(participants, indices, i)
            /\ attempt >= 1
            /\ attempt <= max_attempts)
    /\ [][DrawsOnlyWhileInvalid]_vars
    /\ [][ResultIsFinal]_vars

\* a pairing was returned on the second shuffle or later
C9_Witness == Returned /\ attempt >= 2

\* a step that reads a row stays in the loop, keeps the participants it had and
\* adds as many as the row's kind gives (none for a malformed row)
RowsAddTheirKind ==
    (pc = "load" /\ line_number' = line_number + 1)
        => /\ pc' = "load"
           /\ exit_code' = exit_code
           /\ Len(participants') = Len(participants) + RowAdds(row')
           /\ SubSeq(participants', 1, Len(participants)) = participants

\* C10: is_couple is true exactly when couple_id is set; a couple_id is shared
\* with exactly one other participant, the neighbour appended by the same row;
\* a row adds the participants of its kind and a malformed row adds none, and
\* reading a row never ends ingestion
C10_CoupleIds ==
    /\ [](\A i \in Positions :
            LET p == participants[i]
                others == {j \in Positions \ {i} :
                              participants[j].couple_id = p.couple_id}
            IN /\ p.is_couple <=> p.couple_id # None
               /\ p.couple_id # None =>
                     /\ Cardinality(others) = 1
                     /\ others \subseteq {i - 1, i + 1})
    /\ [][RowsAddTheirKind]_vars

\* two couple rows were loaded and the row read last was malformed
C10_Witness ==
    /\ pc = "load"
    /\ couple_counter = 2
    /\ Len(participants) = 4
    /\ row # <<>>
    /\ RowAdds(row) = 0

\* a send has failed
DeliveryFailed == log_error[1] = "delivery"

\* after a failed send nothing more is sent and the run stays ended
NothingSentAfterFailure ==
    DeliveryFailed => (sent' = sent /\ send_i' = send_i /\ pc' = pc)

====
